---- MODULE Spec2Model ----
(***************************************************************************)
(* State-machine model of the Diningnearby scripts:                        *)
(*   Restaurantreco.py       five-step wizard + RestaurantFinder           *)
(*   aichatbot.py            three-stage wizard (RestaurantRecommender)    *)
(*   unnamed/part_000        GooglePlacesRestaurantAnalyzer                *)
(*   Restaurantnear.py       cached gateway functions                      *)
(*   NearestNationalpark.py  get_nearest_national_parks                    *)
(* The scripts are independent programs; `prog` records which one runs.    *)
(* Optional Python values are modelled as sequences: None is <<>> and a    *)
(* present value x is <<x>>.                                               *)
(***************************************************************************)
EXTENDS Integers, Sequences, FiniteSets, TLC

(* ------------------------------ bounds -------------------------------- *)
\* places the upstream holds for one search (ids 1..MaxPlaces, served in order)
MaxPlaces == 2
\* pages the upstream serves for one search (a token is offered only before the last)
MaxPages == 2
\* largest max_results argument tried on the analyzer (the source passes 1000)
MaxCap == 2
\* st.session_state.max_results of Restaurantreco.py (60 in the source), scaled
\* with MaxPlaces so that a page can reach and overshoot it
SessionMaxResults == 1
\* longest question list the language model's answer parses to
MaxQuestions == 5
\* calls of fetch_restaurants_in_location on one analyzer
MaxCalls == 2
\* clock ticks of the cache model, each of TickSeconds seconds
MaxTicks == 3
\* tags of one place handed to the classifier
MaxTags == 2
\* reviews of one place handed to the review selector
MaxReviews == 3
MaxPageSize == 6
MaxListed == 13
TickSeconds == 1800

(* --------------------------- small helpers ---------------------------- *)
None == <<>>
Some(x) == <<x>>
\* Python truthiness of an optional list: None and [] are falsy
Truthy(opt) == opt # None /\ opt[1] # <<>>
Range(s) == {s[i] : i \in 1..Len(s)}
SeqsUpTo(S, n) == UNION {[1..k -> S] : k \in 0..n}
\* <<a+1, ..., a+n>>
Run(a, n) == [i \in 1..n |-> a + i]

(* --------------------------- upstream model --------------------------- *)
\* "sessions" is Restaurantnear.py run by two user sessions of one server process
Programs == {"reco", "chat", "analyzer", "near", "park", "sessions"}
Locations == {"L1", "L2"}
ErrorStatuses == {"REQUEST_DENIED"}

\* What GET /nearbysearch can answer when `served` places and `pages` pages of
\* this search have been served: a transport failure, or a body with a status,
\* the next n places (only with "OK") and maybe a token.
\* token = 0 stands for a response without a next_page_token key.
PageTokens(pages) == {0} \cup (IF pages + 1 < MaxPages THEN {pages + 1} ELSE {})

NearbyResponses(served, pages) ==
    {[kind |-> "exc"]}
    \cup {[kind |-> "json", status |-> s, results |-> <<>>, token |-> t] :
            s \in ErrorStatuses \cup {"ZERO_RESULTS"}, t \in PageTokens(pages)}
    \cup {[kind |-> "json", status |-> "OK", results |-> Run(served, n), token |-> t] :
            n \in 0..(MaxPlaces - served), t \in PageTokens(pages)}

\* The record GET /details holds for place p
PlaceRecord(p) == [name |-> p, types |-> <<"restaurant", "point_of_interest">>]

\* What GET /details can answer for place p
DetailResponses(p) ==
    {[kind |-> "exc"], [kind |-> "http"],
     [kind |-> "json", status |-> "NOT_FOUND", result |-> None],
     [kind |-> "json", status |-> "OK", result |-> Some(PlaceRecord(p))]}

\* What GET /geocode can answer for a location text; a body may lack its
\* "status" key, and an "OK" body may carry an empty result list
GeocodeResponses(loc) ==
    {[kind |-> "exc"], [kind |-> "http"],
     [kind |-> "json"],
     [kind |-> "json", status |-> "OK", results |-> <<>>],
     [kind |-> "json", status |-> "ZERO_RESULTS", results |-> <<>>],
     [kind |-> "json", status |-> "OK",
      results |-> <<[lat |-> 1, lng |-> 2, formatted_address |-> loc, place_id |-> "g1"]>>],
     [kind |-> "json", status |-> "OK",
      results |-> <<[lat |-> 1, lng |-> 2, formatted_address |-> loc, place_id |-> "g1"],
                    [lat |-> 3, lng |-> 4, formatted_address |-> "other", place_id |-> "g2"]>>]}

\* Question lists the parsers can return: each question carries its option list
OptionLists == {<<>>, <<"A">>}
QuestionLists == SeqsUpTo(OptionLists, MaxQuestions)

(* ------------------------------ state --------------------------------- *)
VARIABLES
    prog,                 \* which script runs
    session_state,        \* st.session_state of the running script
    msgs,                 \* st.error / st.warning / print raised by the last handler
    fpc,                  \* position inside the paginated fetch ("idle" outside it)
    all_results,          \* Restaurantreco.py:132
    current_page_results, \* Restaurantreco.py:156
    data,                 \* the last nearby-search response (None before the first)
    todo,                 \* places of the current page not yet looked up
    pagetoken,            \* params['pagetoken'] / next_page_token (0: absent)
    page_count,           \* Restaurantreco.py:146
    returned,             \* value the last fetch returned (None while running)
    requests,             \* nearby-search requests issued by the current fetch
    sleeps,               \* time.sleep(2) executed by the current fetch
    served,               \* places the upstream has served in the current search
    restaurants,          \* GooglePlacesRestaurantAnalyzer.restaurants
    restaurants_found,    \* part_000:44
    max_results,          \* argument of fetch_restaurants_in_location
    calls,                \* calls of fetch_restaurants_in_location so far
    before_call,          \* analyzer.restaurants when the current call began
    cached_result,        \* wrapper.cached_result of each cached function (Restaurantnear.py:63),
                          \* per wrapper object
    now,                  \* time.time(), in seconds
    last_call,            \* the last call of a cached function: what was asked, what came back
    applied,              \* the function last applied on its own, with its input (None: none yet)
    outcome               \* what that application gave

vars == <<prog, session_state, msgs, fpc, all_results, current_page_results, data,
          todo, pagetoken, page_count, returned, requests, sleeps, served,
          restaurants, restaurants_found, max_results, calls, before_call,
          cached_result, now, last_call, applied, outcome>>

fetchVars == <<all_results, current_page_results, data, todo, pagetoken, page_count,
               returned, requests, sleeps, served>>
analyzerVars == <<restaurants, restaurants_found, max_results, calls, before_call>>
nearVars == <<cached_result, now, last_call>>
fnVars == <<applied, outcome>>

\* the locals and the observations of a fetch are gone once the next handler runs
FetchCleared ==
    /\ all_results' = <<>> /\ current_page_results' = <<>>
    /\ data' = None /\ todo' = <<>> /\ pagetoken' = 0 /\ page_count' = 0
    /\ returned' = None /\ requests' = 0 /\ sleeps' = 0 /\ served' = 0

(* ------------------- Restaurantreco.py: session state ----------------- *)
\* default_state of initialize_session_state
Reco_default_state ==
    [step |-> 1, total_steps |-> 6, location |-> None, location_data |-> None,
     establishment_type |-> None, distance |-> None, restaurants_data |-> None,
     max_results |-> SessionMaxResults, current_question |-> 0, questions |-> None,
     answers |-> <<>>, final_recommendation |-> None]

\* initialize_session_state: a key is written only when the session lacks it
Reco_initialize_session_state(ss) == ss @@ Reco_default_state

\* the session with every key deleted (Restaurantreco.py:729-730)
NoKeys == <<>>

distance_options == {1000, 3000, 5000, 10000, 20000}
establishment_types == {"Restaurant", "Cafe", "Bar", "Pub", "Food truck", "Bakery",
                        "Ice cream shop", "Fast food restaurant"}
\* the radio choices the model tries
DistanceChoices == {1000, 20000}
TypeChoices == {"Restaurant", "Cafe"}

(* ---------------- RestaurantFinder (Restaurantreco.py) ---------------- *)
\* get_location_coordinates: [value, msgs] for one geocode response; only
\* requests.RequestException is caught (line 124), so the KeyError of
\* data['status'] (111) and the IndexError of data['results'][0] (117) leave
\* the method and end the run of main
Reco_get_location_coordinates(r) ==
    IF r.kind = "exc" THEN [value |-> None, msgs |-> {"Geocoding API Error"}]
    ELSE IF r.kind = "http" THEN [value |-> None, msgs |-> {"Geocoding API Error"}]
    ELSE IF "status" \notin DOMAIN r THEN [value |-> None, msgs |-> {"Traceback: KeyError"}]
    ELSE IF r.status # "OK" THEN [value |-> None, msgs |-> {"Geocoding Error"}]
    ELSE IF r.results = <<>> THEN [value |-> None, msgs |-> {"Traceback: IndexError"}]
    ELSE LET location_data == r.results[1] IN
         [value |-> Some([lat |-> location_data.lat, lng |-> location_data.lng,
                          formatted_address |-> location_data.formatted_address]),
          msgs |-> {}]

\* get_place_details: [value, msgs] for one details response
Reco_get_place_details(d) ==
    IF d.kind = "exc" THEN [value |-> None, msgs |-> {"Place Details Error"}]
    ELSE IF d.kind = "http" THEN [value |-> None, msgs |-> {"Place Details API Error"}]
    ELSE [value |-> d.result, msgs |-> {}]

\* mutant: no status ends the loop
Reco_StatusIsError_Never(status) == FALSE

\* line 149: the status that ends the loop with an error
Reco_StatusIsError(status) == status # "OK" /\ status # "ZERO_RESULTS"

\* mutant: only the cap stops the pagination
Reco_StopPaging_CapOnly(n, cap, token) == n >= cap

\* line 166: stop paginating
Reco_StopPaging(n, cap, token) == n >= cap \/ token = 0

\* mutant: a successful search forgets the coordinates
Reco_AfterSearch_DropsLocation(ss, found) ==
    IF found # <<>>
    THEN [ss EXCEPT !.restaurants_data = Some(found), !.step = 4, !.location_data = None]
    ELSE ss

\* mutant: a successful search jumps over the questions
Reco_AfterSearch_SkipQuestions(ss, found) ==
    IF found # <<>>
    THEN [ss EXCEPT !.restaurants_data = Some(found), !.step = 5]
    ELSE ss

\* main, lines 673-678: what the Search handler does with the fetched list
Reco_AfterSearch(ss, found) ==
    IF found # <<>>
    THEN [ss EXCEPT !.restaurants_data = Some(found), !.step = 4]
    ELSE ss

Reco_AfterSearchMsgs(found) ==
    IF found # <<>> THEN {} ELSE {"No establishments found. Try different criteria."}

\* the except clause of get_nearby_restaurants (lines 184-186) followed by main
Reco_FetchRaised ==
    /\ returned' = Some(<<>>)
    /\ session_state' = Reco_AfterSearch(session_state, <<>>)
    /\ fpc' = "idle"

\* get_nearby_restaurants, lines 131-146, entered from the Search button (663-671)
Reco_Search(t) ==
    /\ prog = "reco" /\ fpc = "idle" /\ session_state.step = 3
    /\ all_results' = <<>> /\ current_page_results' = <<>> /\ todo' = <<>>
    /\ pagetoken' = 0 /\ sleeps' = 0 /\ requests' = 1
    /\ \E r \in NearbyResponses(0, 0) :
         IF r.kind = "exc"
         THEN /\ returned' = Some(<<>>)
              /\ session_state' =
                   Reco_AfterSearch([session_state EXCEPT !.establishment_type = Some(t)], <<>>)
              /\ fpc' = "idle"
              /\ msgs' = {"Restaurant Search Error"} \cup Reco_AfterSearchMsgs(<<>>)
              /\ data' = None /\ served' = 0 /\ page_count' = 0
         ELSE /\ returned' = None
              /\ session_state' = [session_state EXCEPT !.establishment_type = Some(t)]
              /\ fpc' = "while"
              /\ msgs' = {}
              /\ data' = Some(r) /\ served' = Len(r.results) /\ page_count' = 1
    /\ UNCHANGED <<prog, fnVars, analyzerVars, nearVars>>

\* lines 148-157: the status check at the top of the loop
Finder_CheckStatus ==
    /\ prog = "reco" /\ fpc = "while"
    /\ IF Reco_StatusIsError(data[1].status)
       THEN /\ msgs' = msgs \cup {"Places API Error"}
            /\ fpc' = "return"
            /\ UNCHANGED <<current_page_results, todo>>
       ELSE /\ current_page_results' = <<>>
            /\ todo' = data[1].results
            /\ fpc' = "places"
            /\ UNCHANGED msgs
    /\ UNCHANGED <<prog, fnVars, session_state, all_results, data, pagetoken, page_count, returned,
                   requests, sleeps, served, analyzerVars, nearVars>>

\* lines 157-160: one place of the page
Finder_Place ==
    /\ prog = "reco" /\ fpc = "places" /\ todo # <<>>
    /\ \E d \in DetailResponses(Head(todo)) :
         LET details == Reco_get_place_details(d) IN
         /\ current_page_results' =
              IF details.value # None
              THEN Append(current_page_results, details.value[1])
              ELSE current_page_results
         /\ msgs' = msgs \cup details.msgs
    /\ todo' = Tail(todo)
    /\ UNCHANGED <<prog, fnVars, session_state, fpc, all_results, data, pagetoken, page_count,
                   returned, requests, sleeps, served, analyzerVars, nearVars>>

\* lines 162-167: the page is exhausted
Finder_EndPage ==
    /\ prog = "reco" /\ fpc = "places" /\ todo = <<>>
    /\ all_results' = all_results \o current_page_results
    /\ fpc' = IF Reco_StopPaging(Len(all_results'), session_state.max_results, data[1].token)
              THEN "return" ELSE "sleep"
    /\ UNCHANGED <<prog, fnVars, session_state, msgs, current_page_results, data, todo, pagetoken,
                   page_count, returned, requests, sleeps, served, analyzerVars, nearVars>>

\* mutant: the wait before the next page never ends
Finder_Sleep_Forever ==
    /\ prog = "reco" /\ fpc = "sleep"
    /\ UNCHANGED vars

\* mutant: the next page is asked for at once
Finder_Sleep_NoDelay ==
    /\ prog = "reco" /\ fpc = "sleep"
    /\ page_count' = page_count + 1
    /\ fpc' = "nextpage"
    /\ UNCHANGED <<prog, fnVars, session_state, msgs, all_results, current_page_results, data, todo,
                   pagetoken, returned, requests, sleeps, served, analyzerVars, nearVars>>

\* lines 170-171
Finder_Sleep ==
    /\ prog = "reco" /\ fpc = "sleep"
    /\ sleeps' = sleeps + 1
    /\ page_count' = page_count + 1
    /\ fpc' = "nextpage"
    /\ UNCHANGED <<prog, fnVars, session_state, msgs, all_results, current_page_results, data, todo,
                   pagetoken, returned, requests, served, analyzerVars, nearVars>>

\* lines 174-177
Finder_NextPage ==
    /\ prog = "reco" /\ fpc = "nextpage"
    /\ pagetoken' = data[1].token
    /\ requests' = requests + 1
    /\ \E r \in NearbyResponses(served, requests) :
         IF r.kind = "exc"
         THEN /\ Reco_FetchRaised
              /\ msgs' = msgs \cup {"Restaurant Search Error"} \cup Reco_AfterSearchMsgs(<<>>)
              /\ UNCHANGED <<data, served>>
         ELSE /\ data' = Some(r)
              /\ served' = served + Len(r.results)
              /\ fpc' = "while"
              /\ UNCHANGED <<session_state, msgs, returned>>
    /\ UNCHANGED <<prog, fnVars, all_results, current_page_results, todo, page_count, sleeps,
                   analyzerVars, nearVars>>

\* lines 179-182, then main 673-678
Finder_Return ==
    /\ prog = "reco" /\ fpc = "return"
    /\ returned' = Some(all_results)
    /\ msgs' = msgs \cup (IF all_results = <<>> THEN {"No establishments found in this area"}
                          ELSE {}) \cup Reco_AfterSearchMsgs(all_results)
    /\ session_state' = Reco_AfterSearch(session_state, all_results)
    /\ fpc' = "idle"
    /\ UNCHANGED <<prog, fnVars, all_results, current_page_results, data, todo, pagetoken,
                   page_count, requests, sleeps, served, analyzerVars, nearVars>>

(* -------------------- Restaurantreco.py: main ------------------------- *)
\* the value st.radio returns for an option list: an option, or None when empty
RadioChoices(options) ==
    IF options = <<>> THEN {None} ELSE {Some(o) : o \in Range(options)}

\* what generate_questions can return: None (exception) or a parsed list
GeneratedQuestions == {None} \cup {Some(q) : q \in QuestionLists}

\* lines 605-625: a location text with no suggestion
Reco_NoSuggestions ==
    /\ prog = "reco" /\ fpc = "idle" /\ session_state.step = 1
    /\ msgs' = {"No locations found"}
    /\ FetchCleared
    /\ UNCHANGED <<prog, fnVars, session_state, fpc, analyzerVars, nearVars>>

\* lines 616-623: "Next" with a selected suggestion
Reco_LocationNext(sel, g) ==
    /\ prog = "reco" /\ fpc = "idle" /\ session_state.step = 1
    /\ LET location_data == Reco_get_location_coordinates(g) IN
       /\ msgs' = location_data.msgs
       /\ session_state' =
            IF location_data.value # None
            THEN [session_state EXCEPT !.location = Some(sel),
                                       !.location_data = location_data.value,
                                       !.step = 2]
            ELSE session_state
    /\ FetchCleared
    /\ UNCHANGED <<prog, fnVars, fpc, analyzerVars, nearVars>>

\* mutant: "Next" advances without storing a radius
Reco_DistanceNext_NoRadius(d) ==
    /\ prog = "reco" /\ fpc = "idle" /\ session_state.step = 2
    /\ session_state' = [session_state EXCEPT !.step = 3]
    /\ msgs' = {}
    /\ FetchCleared
    /\ UNCHANGED <<prog, fnVars, fpc, analyzerVars, nearVars>>

\* lines 641-644
Reco_DistanceNext(d) ==
    /\ prog = "reco" /\ fpc = "idle" /\ session_state.step = 2
    /\ session_state' = [session_state EXCEPT !.distance = Some(d), !.step = 3]
    /\ msgs' = {}
    /\ FetchCleared
    /\ UNCHANGED <<prog, fnVars, fpc, analyzerVars, nearVars>>

\* lines 684-687: a run of the script at step 4 while no questions are stored
Reco_GenerateQuestions(q) ==
    /\ prog = "reco" /\ fpc = "idle" /\ session_state.step = 4
    /\ ~Truthy(session_state.questions)
    /\ session_state' = [session_state EXCEPT !.questions = q]
    /\ msgs' = (IF q = None THEN {"Question generation error"} ELSE {})
               \cup (IF Truthy(q) THEN {} ELSE {"Failed to generate questions"})
    /\ FetchCleared
    /\ UNCHANGED <<prog, fnVars, fpc, analyzerVars, nearVars>>

\* lines 706-710: the "Restart" button under the failure message
Reco_Restart ==
    /\ prog = "reco" /\ fpc = "idle" /\ session_state.step = 4
    /\ ~Truthy(session_state.questions)
    /\ session_state' = Reco_initialize_session_state(session_state)
    /\ msgs' = {"Failed to generate questions"}
    /\ FetchCleared
    /\ UNCHANGED <<prog, fnVars, fpc, analyzerVars, nearVars>>

\* line 700: the last question index of the hard-wired five
Reco_LastQuestion == 4

\* mutant: the recommendation step is entered after the fourth answer
Reco_RecordAnswer_OneShort(ss, answer) ==
    LET stored == [ss EXCEPT !.answers = ((ss.current_question + 1) :> answer) @@ ss.answers]
    IN  IF ss.current_question < Reco_LastQuestion - 1
        THEN [stored EXCEPT !.current_question = ss.current_question + 1]
        ELSE [stored EXCEPT !.step = 5]

\* lines 698-705: record the answer, then move to the next question or to step 5
Reco_RecordAnswer(ss, answer) ==
    LET stored == [ss EXCEPT !.answers = ((ss.current_question + 1) :> answer) @@ ss.answers]
    IN  IF ss.current_question < Reco_LastQuestion
        THEN [stored EXCEPT !.current_question = ss.current_question + 1]
        ELSE [stored EXCEPT !.step = 5]

\* lines 689-705: the stored question is displayed, then "Next" / "Get
\* Recommendation" is pressed; questions[current_question] (line 690) raises
\* IndexError when the list has no such entry
Reco_Answer ==
    /\ prog = "reco" /\ fpc = "idle" /\ session_state.step = 4
    /\ Truthy(session_state.questions)
    /\ IF session_state.current_question + 1 <= Len(session_state.questions[1])
       THEN /\ \E answer \in RadioChoices(
                      session_state.questions[1][session_state.current_question + 1]) :
                 session_state' = Reco_RecordAnswer(session_state, answer)
            /\ msgs' = {}
       ELSE /\ session_state' = session_state
            /\ msgs' = {"Traceback: IndexError"}
    /\ FetchCleared
    /\ UNCHANGED <<prog, fnVars, fpc, analyzerVars, nearVars>>

\* lines 728-732: "Start New Search"
Reco_StartNewSearch ==
    /\ prog = "reco" /\ fpc = "idle" /\ session_state.step = 5
    /\ session_state' = Reco_initialize_session_state(NoKeys)
    /\ msgs' = {}
    /\ FetchCleared
    /\ UNCHANGED <<prog, fnVars, fpc, analyzerVars, nearVars>>

(* ------------------------- aichatbot.py ------------------------------- *)
Chat_default_state ==
    [stage |-> "location", location |-> None, location_coords |-> None,
     questions |-> None, parsed_questions |-> None, current_question |-> 0,
     answers |-> <<>>]

\* initialize_session_state, lines 174-188
Chat_initialize_session_state(ss) == ss @@ Chat_default_state

\* get_location_coordinates, lines 41-57: "lat,lng" of the first result, or None
\* mutant: the last entry of the result list is taken
Chat_get_location_coordinates_Last(r) ==
    IF r.kind \in {"exc", "http"} THEN [value |-> None, msgs |-> {"Geocoding error"}]
    ELSE IF "status" \notin DOMAIN r THEN [value |-> None, msgs |-> {"Geocoding error"}]
    ELSE IF r.status # "OK"
         THEN [value |-> None, msgs |-> {"Location coordinates not found."}]
    ELSE IF r.results = <<>> THEN [value |-> None, msgs |-> {"Geocoding error"}]
    ELSE [value |-> Some([text |-> <<r.results[Len(r.results)].lat, ",",
                                      r.results[Len(r.results)].lng>>]),
          msgs |-> {}]

\* get_location_coordinates, lines 41-57: [value, msgs]; the value is the
\* text f"{lat},{lng}"
Chat_get_location_coordinates(r) ==
    IF r.kind \in {"exc", "http"} THEN [value |-> None, msgs |-> {"Geocoding error"}]
    ELSE IF "status" \notin DOMAIN r THEN [value |-> None, msgs |-> {"Geocoding error"}]
    ELSE IF r.status # "OK"
         THEN [value |-> None, msgs |-> {"Location coordinates not found."}]
    ELSE IF r.results = <<>> THEN [value |-> None, msgs |-> {"Geocoding error"}]
    ELSE [value |-> Some([text |-> <<r.results[1].lat, ",", r.results[1].lng>>]),
          msgs |-> {}]

\* lines 209-224: "Confirm Location"; q is the list the generated text parses to
Chat_ConfirmLocation(sel, g, q) ==
    /\ prog = "chat" /\ session_state.stage = "location"
    /\ LET coords == Chat_get_location_coordinates(g)
           located == [session_state EXCEPT !.location = Some(sel),
                                            !.location_coords = coords.value]
       IN  IF coords.value # None
           THEN /\ session_state' =
                     [located EXCEPT !.questions = Some(IF q = <<>> THEN "" ELSE "text"),
                                     !.parsed_questions = Some(q),
                                     !.stage = "questions",
                                     !.current_question = 0]
                /\ msgs' = coords.msgs
           ELSE /\ session_state' = located
                /\ msgs' = coords.msgs \cup {"Could not find coordinates for this location."}
    /\ UNCHANGED <<prog, fnVars, fpc, fetchVars, analyzerVars, nearVars>>

\* lines 229-234: "Restart" when no question was parsed
Chat_Restart ==
    /\ prog = "chat" /\ session_state.stage = "questions"
    /\ ~Truthy(session_state.parsed_questions)
    /\ session_state' = Chat_initialize_session_state(session_state)
    /\ msgs' = {"Questions could not be generated. Please try again."}
    /\ UNCHANGED <<prog, fnVars, fpc, fetchVars, analyzerVars, nearVars>>

\* mutant: the stage switches one question early
Chat_RecordAnswer_Early(ss, answer) ==
    LET n == ss.current_question + 1
        stored == [ss EXCEPT !.answers = (n :> answer) @@ ss.answers,
                             !.current_question = n]
    IN  IF n >= Len(ss.parsed_questions[1]) - 1
        THEN [stored EXCEPT !.stage = "recommendations"]
        ELSE stored

\* lines 251-259: store the answer, advance, switch stage after the last question
Chat_RecordAnswer(ss, answer) ==
    LET n == ss.current_question + 1
        stored == [ss EXCEPT !.answers = (n :> answer) @@ ss.answers,
                             !.current_question = n]
    IN  IF n >= Len(ss.parsed_questions[1])
        THEN [stored EXCEPT !.stage = "recommendations"]
        ELSE stored

\* lines 236-261: "Next Question" on a question that has options
Chat_NextQuestion ==
    /\ prog = "chat" /\ session_state.stage = "questions"
    /\ Truthy(session_state.parsed_questions)
    /\ LET options == session_state.parsed_questions[1][session_state.current_question + 1]
       IN  /\ options # <<>>
           /\ \E answer \in RadioChoices(options) :
                session_state' = Chat_RecordAnswer(session_state, answer)
    /\ msgs' = {}
    /\ UNCHANGED <<prog, fnVars, fpc, fetchVars, analyzerVars, nearVars>>

\* lines 262-263: the displayed question has no options
Chat_NoOptions ==
    /\ prog = "chat" /\ session_state.stage = "questions"
    /\ Truthy(session_state.parsed_questions)
    /\ session_state.parsed_questions[1][session_state.current_question + 1] = <<>>
    /\ msgs' = {"Unable to generate options for this question."}
    /\ UNCHANGED <<prog, fnVars, session_state, fpc, fetchVars, analyzerVars, nearVars>>

\* lines 278-281: "Start Over"
Chat_StartOver ==
    /\ prog = "chat" /\ session_state.stage = "recommendations"
    /\ session_state' = Chat_initialize_session_state(session_state)
    /\ msgs' = {}
    /\ UNCHANGED <<prog, fnVars, fpc, fetchVars, analyzerVars, nearVars>>

(* --------- GooglePlacesRestaurantAnalyzer (unnamed/part_000) ---------- *)
\* t.replace('_', ' ').title() on the four tags line 31 keeps
TitleOf(t) ==
    CASE t = "restaurant" -> "Restaurant"
      [] t = "food" -> "Food"
      [] t = "meal_takeaway" -> "Meal Takeaway"
      [] t = "meal_delivery" -> "Meal Delivery"
      [] OTHER -> t

\* _extract_cuisine_types, lines 20-38 (the records carry no editorial_summary)
Analyzer_extract_cuisine_types(details) ==
    LET kept == SelectSeq(details.types,
                          LAMBDA t : t \in {"restaurant", "food", "meal_takeaway", "meal_delivery"})
        cuisine_types == [i \in 1..Len(kept) |-> TitleOf(kept[i])]
    IN  IF cuisine_types # <<>> THEN cuisine_types ELSE <<"Unknown">>

\* lines 85-88: the record appended for a place
Analyzer_Record(place_details) ==
    [name |-> place_details.name,
     cuisine_types |-> Analyzer_extract_cuisine_types(place_details)]

\* line 47: the loop condition
Analyzer_LoopCondition(found, cap) == found < cap

\* line 63: the status that ends the loop
Analyzer_StatusIsError(status) == status # "OK"

\* mutant: every call starts from an empty restaurant list
Analyzer_Call_Fresh(m) ==
    /\ prog = "analyzer" /\ fpc = "idle" /\ calls < MaxCalls
    /\ calls' = calls + 1
    /\ max_results' = m
    /\ restaurants_found' = 0
    /\ pagetoken' = 0
    /\ restaurants' = <<>>
    /\ before_call' = <<>>
    /\ requests' = 0 /\ sleeps' = 0 /\ served' = 0
    /\ returned' = None /\ data' = None /\ todo' = <<>>
    /\ msgs' = {}
    /\ fpc' = "while"
    /\ UNCHANGED <<prog, fnVars, session_state, all_results, current_page_results, page_count,
                   nearVars>>

\* a call of fetch_restaurants_in_location, lines 40-45
Analyzer_Call(m) ==
    /\ prog = "analyzer" /\ fpc = "idle" /\ calls < MaxCalls
    /\ calls' = calls + 1
    /\ max_results' = m
    /\ restaurants_found' = 0
    /\ pagetoken' = 0
    /\ before_call' = restaurants
    /\ requests' = 0 /\ sleeps' = 0 /\ served' = 0
    /\ returned' = None /\ data' = None /\ todo' = <<>>
    /\ msgs' = {}
    /\ fpc' = "while"
    /\ UNCHANGED <<prog, fnVars, session_state, all_results, current_page_results, page_count,
                   restaurants, nearVars>>

\* lines 47-65: the loop test, the page request and the status check
Analyzer_Loop ==
    /\ prog = "analyzer" /\ fpc = "while"
    /\ IF Analyzer_LoopCondition(restaurants_found, max_results)
       THEN /\ requests' = requests + 1
            /\ \E r \in NearbyResponses(served, requests) :
                 IF r.kind = "exc"
                 THEN /\ msgs' = msgs \cup {"An error occurred"}
                      /\ fpc' = "return"
                      /\ UNCHANGED <<data, todo, served>>
                 ELSE IF Analyzer_StatusIsError(r.status)
                 THEN /\ msgs' = msgs \cup {"Error fetching restaurants"}
                      /\ fpc' = "return"
                      /\ data' = Some(r)
                      /\ UNCHANGED <<todo, served>>
                 ELSE /\ data' = Some(r)
                      /\ todo' = r.results
                      /\ served' = served + Len(r.results)
                      /\ fpc' = "places"
                      /\ UNCHANGED msgs
       ELSE /\ fpc' = "return"
            /\ UNCHANGED <<requests, msgs, data, todo, served>>
    /\ UNCHANGED <<prog, fnVars, session_state, all_results, current_page_results, pagetoken,
                   page_count, returned, sleeps, restaurants, restaurants_found,
                   max_results, calls, before_call, nearVars>>

\* lines 68-89: one place of the page, while the cap is not reached
Analyzer_Place ==
    /\ prog = "analyzer" /\ fpc = "places"
    /\ todo # <<>> /\ restaurants_found < max_results
    /\ \E d \in DetailResponses(Head(todo)) :
         IF d.kind \in {"exc", "http"}
         THEN /\ msgs' = msgs \cup {"An error occurred"}
              /\ fpc' = "return"
              /\ UNCHANGED <<todo, restaurants, restaurants_found>>
         ELSE /\ todo' = Tail(todo)
              /\ IF d.status = "OK"
                 THEN /\ restaurants' = Append(restaurants, Analyzer_Record(d.result[1]))
                      /\ restaurants_found' = restaurants_found + 1
                 ELSE UNCHANGED <<restaurants, restaurants_found>>
              /\ UNCHANGED <<msgs, fpc>>
    /\ UNCHANGED <<prog, fnVars, session_state, all_results, current_page_results, data, pagetoken,
                   page_count, returned, requests, sleeps, served, max_results, calls,
                   before_call, nearVars>>

\* lines 69-70 and 91-94: the page ends (exhausted or cap reached); read the token
Analyzer_EndPage ==
    /\ prog = "analyzer" /\ fpc = "places"
    /\ todo = <<>> \/ restaurants_found >= max_results
    /\ pagetoken' = data[1].token
    /\ fpc' = IF data[1].token = 0 THEN "return" ELSE "sleep"
    /\ UNCHANGED <<prog, fnVars, session_state, msgs, all_results, current_page_results, data, todo,
                   page_count, returned, requests, sleeps, served, analyzerVars, nearVars>>

\* lines 96-97
Analyzer_Sleep ==
    /\ prog = "analyzer" /\ fpc = "sleep"
    /\ sleeps' = sleeps + 1
    /\ fpc' = "while"
    /\ UNCHANGED <<prog, fnVars, session_state, msgs, all_results, current_page_results, data, todo,
                   pagetoken, page_count, returned, requests, served, analyzerVars, nearVars>>

\* line 103
Analyzer_Return ==
    /\ prog = "analyzer" /\ fpc = "return"
    /\ returned' = Some(restaurants)
    /\ fpc' = "idle"
    /\ UNCHANGED <<prog, fnVars, session_state, msgs, all_results, current_page_results, data, todo,
                   pagetoken, page_count, requests, sleeps, served, analyzerVars, nearVars>>

(* ----------------------- NearestNationalpark.py ---------------------- *)
max_parks == 5

\* get_place_photos, lines 108-127: the photo list of a place, [] unless "OK"
Park_get_place_photos(p, ok) == IF p \in ok THEN <<[photo_of |-> p]>> ELSE <<>>

\* lines 79-106: parks_data and the reported error for one nearby-search response;
\* `ok` are the places whose photo lookup answers "OK"
Park_get_nearest_national_parks(r, ok) ==
    IF r.status = "OK"
    THEN [value |-> [i \in 1..(IF Len(r.results) < max_parks THEN Len(r.results)
                                ELSE max_parks) |->
                       [name |-> r.results[i],
                        photos |-> Park_get_place_photos(r.results[i], ok)]],
          msgs |-> {}]
    ELSE [value |-> <<>>, msgs |-> {"Error finding national parks"}]

\* lines 158-178: the "Get Nearest National Parks" button
Park_Search ==
    /\ prog = "park"
    /\ \E r \in NearbyResponses(0, MaxPages - 1), ok \in SUBSET (1..MaxPlaces) :
         IF r.kind = "exc"
         THEN /\ msgs' = {"Traceback: RequestException"}
              /\ UNCHANGED <<data, returned>>
         ELSE LET parks == Park_get_nearest_national_parks(r, ok) IN
              /\ data' = Some(r)
              /\ returned' = Some(parks.value)
              /\ msgs' = parks.msgs \cup (IF parks.value = <<>>
                                          THEN {"No national parks found nearby."} ELSE {})
    /\ requests' = 1
    /\ UNCHANGED <<prog, fnVars, session_state, fpc, all_results, current_page_results, todo,
                   pagetoken, page_count, sleeps, served, analyzerVars, nearVars>>

(* ------------------- Restaurantnear.py: cached gateway ---------------- *)
timeout == 3600
CachedFunctions == {"get_place_suggestions", "get_place_details"}
NearArgs(fn) == IF fn = "get_place_details" THEN 1..MaxPlaces ELSE Locations

\* what the upstream can answer to the request `fn` makes for `arg`
NearResponses(fn, arg) ==
    IF fn = "get_place_details" THEN DetailResponses(arg)
    ELSE {[kind |-> "exc"], [kind |-> "http"],
          [kind |-> "json", predictions |-> <<>>],
          [kind |-> "json", predictions |-> <<[description |-> <<arg, 1>>],
                                              [description |-> <<arg, 2>>]>>]}

\* get_place_suggestions, lines 93-104 (undecorated): raised, or the descriptions
Near_get_place_suggestions(input_text, r) ==
    IF r.kind \in {"exc", "http"} THEN [raised |-> TRUE, value |-> None]
    ELSE [raised |-> FALSE,
          value |-> [i \in 1..Len(r.predictions) |-> r.predictions[i].description]]

\* get_place_details, lines 167-171 (undecorated): raised, or result / {}
Near_get_place_details(place_id, r) ==
    IF r.kind \in {"exc", "http"} THEN [raised |-> TRUE, value |-> None]
    ELSE [raised |-> FALSE, value |-> IF r.result = None THEN <<>> ELSE r.result[1]]

Near_func(fn, arg, r) ==
    IF fn = "get_place_details" THEN Near_get_place_details(arg, r)
    ELSE Near_get_place_suggestions(arg, r)

\* lines 54-57: a stored result exists and is younger than the timeout
Near_CacheHit(slot, t) == slot # None /\ t - slot[1].time < timeout

\* main, lines 242-246 and 283-286: what the caller does with the value it got;
\* `result` is None when handle_api_errors returned None
Near_CallerMsgs(fn, result) ==
    IF fn = "get_place_details"
    THEN (IF result = None THEN {"Traceback: AttributeError"} ELSE {})
    ELSE (IF result = None \/ result[1] = <<>> THEN {"No locations found"} ELSE {})

\* the user sessions whose script runs are under way
Sessions == {1, 2}
RunningSessions == IF prog = "sessions" THEN Sessions ELSE {1}

\* mutant: every session calls the wrappers the first session built
Near_WrapperOf_Shared(s) == 1

\* lines 91-93, 165-167: the decorators run when the script is executed, and
\* every run of every session executes the script, so a run calls the wrapper
\* objects it built itself
Near_WrapperOf(s) == s

\* @handle_api_errors @cache_api_call(): one call of a decorated function by
\* the main of session s; `by` records whose call filled the slot
Near_Call(s, fn, arg) ==
    /\ prog \in {"near", "sessions"} /\ s \in RunningSessions
    /\ LET w == Near_WrapperOf(s) IN
       IF Near_CacheHit(cached_result[w][fn], now)
       THEN /\ last_call' = Some([session |-> s, fn |-> fn, arg |-> arg, hit |-> TRUE,
                                  by |-> cached_result[w][fn][1].by,
                                  result |-> Some(cached_result[w][fn][1].result)])
            /\ msgs' = Near_CallerMsgs(fn, Some(cached_result[w][fn][1].result))
            /\ UNCHANGED cached_result
       ELSE \E r \in NearResponses(fn, arg) :
              LET out == Near_func(fn, arg, r) IN
              IF out.raised
              THEN /\ last_call' = Some([session |-> s, fn |-> fn, arg |-> arg, hit |-> FALSE,
                                         by |-> s, result |-> None])
                   /\ msgs' = {"Network Error"} \cup Near_CallerMsgs(fn, None)
                   /\ UNCHANGED cached_result
              ELSE /\ last_call' = Some([session |-> s, fn |-> fn, arg |-> arg, hit |-> FALSE,
                                         by |-> s, result |-> Some(out.value)])
                   /\ msgs' = Near_CallerMsgs(fn, Some(out.value))
                   /\ cached_result' =
                        [cached_result EXCEPT ![w][fn] =
                           Some([time |-> now, result |-> out.value, by |-> s])]
    /\ UNCHANGED <<prog, fnVars, session_state, fpc, fetchVars, analyzerVars, now>>

\* time passes
Near_Tick ==
    /\ prog = "near" /\ now < MaxTicks * TickSeconds
    /\ now' = now + TickSeconds
    /\ UNCHANGED <<prog, fnVars, session_state, msgs, fpc, fetchVars, analyzerVars, cached_result,
                   last_call>>

\* a rerun of session s executes the script again: the decorators build new
\* wrappers (lines 91-171)
Near_Rerun(s) ==
    /\ prog \in {"near", "sessions"} /\ s \in RunningSessions
    /\ cached_result' = [cached_result EXCEPT ![Near_WrapperOf(s)] =
                                               [f \in CachedFunctions |-> None]]
    /\ last_call' = None
    /\ msgs' = {}
    /\ UNCHANGED <<prog, fnVars, session_state, fpc, fetchVars, analyzerVars, now>>

(* ------------- gateway and selector functions, applied alone ---------- *)
\* one application of function `f` of `script` to input x, giving y
Fn_Apply(f, script, x, y) ==
    /\ prog = "functions"
    /\ applied' = Some([fn |-> f, script |-> script, input |-> x])
    /\ outcome' = Some(y)
    /\ UNCHANGED <<prog, session_state, msgs, fpc, fetchVars, analyzerVars, nearVars>>

\* the predictions GET /autocomplete can list
Predictions ==
    {<<>>, <<[description |-> "d1", place_id |-> "p1"]>>,
     <<[description |-> "d1", place_id |-> "p1"], [description |-> "d2", place_id |-> "p2"]>>,
     <<[description |-> "d2", place_id |-> "p2"], [description |-> "d1", place_id |-> "p1"]>>}

\* What GET /autocomplete can answer: a transport failure, a non-200 answer, or
\* a body with a status and (with "OK") its predictions
SuggestResponses ==
    {[kind |-> "exc"], [kind |-> "http"]}
    \cup {[kind |-> "json", status |-> st, predictions |-> <<>>] :
             st \in ErrorStatuses \cup {"ZERO_RESULTS"}}
    \cup {[kind |-> "json", status |-> "OK", predictions |-> ps] : ps \in Predictions}

\* the description of each prediction, in order
Descriptions(ps) == [i \in 1..Len(ps) |-> ps[i].description]

\* Restaurantreco.py, RestaurantFinder.get_place_suggestions, lines 63-91
Reco_get_place_suggestions(r) ==
    IF r.kind = "exc" THEN [value |-> <<>>, msgs |-> {<<"Location suggestion error", "">>}]
    ELSE IF r.kind = "http" THEN [value |-> <<>>, msgs |-> {<<"API Error: Status Code", "">>}]
    ELSE IF r.status # "OK" THEN [value |-> <<>>, msgs |-> {<<"API Error", r.status>>}]
    ELSE [value |-> Descriptions(r.predictions), msgs |-> {}]

\* aichatbot.py, RestaurantRecommender.get_place_suggestions, lines 30-39: the
\* status of the body is not read
Chat_get_place_suggestions(r) ==
    IF r.kind \in {"exc", "http"}
    THEN [value |-> <<>>, msgs |-> {<<"Location suggestion error", "">>}]
    ELSE [value |-> Descriptions(r.predictions), msgs |-> {}]

\* NearestNationalpark.py, get_place_suggestions, lines 13-42: nothing is caught
Park_get_place_suggestions(r) ==
    IF r.kind \in {"exc", "http"}
    THEN [value |-> <<>>, msgs |-> {<<"Traceback", "RequestException">>}]
    ELSE IF r.status = "OK" THEN [value |-> r.predictions, msgs |-> {}]
    ELSE [value |-> <<>>, msgs |-> {<<"Error", r.status>>}]

Fn_Suggest ==
    \E r \in SuggestResponses :
      \/ Fn_Apply("get_place_suggestions", "reco", r, Reco_get_place_suggestions(r))
      \/ Fn_Apply("get_place_suggestions", "chat", r, Chat_get_place_suggestions(r))
      \/ Fn_Apply("get_place_suggestions", "park", r, Park_get_place_suggestions(r))

(* --------------- Restaurantnear.py: classifier and reviews ------------ *)
\* a text is the sequence of its characters
\* lines 23-42, in declaration order
CUISINE_KEYWORDS ==
  <<
    [cuisine |-> "American", keywords |->
        <<<<"a", "m", "e", "r", "i", "c", "a", "n">>,
          <<"b", "u", "r", "g", "e", "r">>,
          <<"g", "r", "i", "l", "l">>>>],
    [cuisine |-> "Italian", keywords |->
        <<<<"i", "t", "a", "l", "i", "a", "n">>,
          <<"p", "i", "z", "z", "a">>,
          <<"p", "a", "s", "t", "a">>,
          <<"t", "r", "a", "t", "t", "o", "r", "i", "a">>>>],
    [cuisine |-> "Chinese", keywords |->
        <<<<"c", "h", "i", "n", "e", "s", "e">>,
          <<"d", "i", "m", " ", "s", "u", "m">>,
          <<"c", "a", "n", "t", "o", "n", "e", "s", "e">>,
          <<"s", "i", "c", "h", "u", "a", "n">>>>],
    [cuisine |-> "Mexican", keywords |->
        <<<<"m", "e", "x", "i", "c", "a", "n">>,
          <<"t", "a", "c", "o">>,
          <<"b", "u", "r", "r", "i", "t", "o">>,
          <<"t", "e", "x", "-", "m", "e", "x">>>>],
    [cuisine |-> "Indian", keywords |->
        <<<<"i", "n", "d", "i", "a", "n">>,
          <<"c", "u", "r", "r", "y">>,
          <<"t", "a", "n", "d", "o", "o", "r", "i">>,
          <<"n", "o", "r", "t", "h", " ", "i", "n", "d", "i", "a", "n">>,
          <<"s", "o", "u", "t", "h", " ", "i", "n", "d", "i", "a", "n">>>>],
    [cuisine |-> "Japanese", keywords |->
        <<<<"j", "a", "p", "a", "n", "e", "s", "e">>,
          <<"s", "u", "s", "h", "i">>,
          <<"r", "a", "m", "e", "n">>,
          <<"i", "z", "a", "k", "a", "y", "a">>>>],
    [cuisine |-> "Thai", keywords |->
        <<<<"t", "h", "a", "i">>,
          <<"p", "a", "d", " ", "t", "h", "a", "i">>,
          <<"t", "h", "a", "i", " ", "c", "u", "i", "s", "i", "n", "e">>>>],
    [cuisine |-> "Mediterranean", keywords |->
        <<<<"m", "e", "d", "i", "t", "e", "r", "r", "a", "n", "e", "a", "n">>,
          <<"g", "r", "e", "e", "k">>,
          <<"l", "e", "b", "a", "n", "e", "s", "e">>,
          <<"i", "s", "r", "a", "e", "l", "i">>>>],
    [cuisine |-> "French", keywords |->
        <<<<"f", "r", "e", "n", "c", "h">>,
          <<"b", "i", "s", "t", "r", "o">>,
          <<"p", "a", "t", "i", "s", "s", "e", "r", "i", "e">>,
          <<"b", "r", "a", "s", "s", "e", "r", "i", "e">>>>],
    [cuisine |-> "Korean", keywords |->
        <<<<"k", "o", "r", "e", "a", "n">>,
          <<"b", "b", "q">>,
          <<"k", "o", "r", "e", "a", "n", " ", "c", "u", "i", "s", "i", "n", "e">>>>],
    [cuisine |-> "Spanish", keywords |->
        <<<<"s", "p", "a", "n", "i", "s", "h">>,
          <<"t", "a", "p", "a", "s">>>>],
    [cuisine |-> "Vietnamese", keywords |->
        <<<<"v", "i", "e", "t", "n", "a", "m", "e", "s", "e">>,
          <<"p", "h", "o">>>>],
    [cuisine |-> "Greek", keywords |->
        <<<<"g", "r", "e", "e", "k">>,
          <<"g", "y", "r", "o">>,
          <<"s", "o", "u", "v", "l", "a", "k", "i">>>>],
    [cuisine |-> "Middle Eastern", keywords |->
        <<<<"m", "i", "d", "d", "l", "e", " ", "e", "a", "s", "t", "e", "r", "n">>,
          <<"f", "a", "l", "a", "f", "e", "l">>,
          <<"k", "e", "b", "a", "b">>>>],
    [cuisine |-> "Brazilian", keywords |->
        <<<<"b", "r", "a", "z", "i", "l", "i", "a", "n">>,
          <<"c", "h", "u", "r", "r", "a", "s", "c", "a", "r", "i", "a">>>>],
    [cuisine |-> "Caribbean", keywords |->
        <<<<"c", "a", "r", "i", "b", "b", "e", "a", "n">>,
          <<"j", "a", "m", "a", "i", "c", "a", "n">>>>],
    [cuisine |-> "African", keywords |->
        <<<<"a", "f", "r", "i", "c", "a", "n">>,
          <<"e", "t", "h", "i", "o", "p", "i", "a", "n">>>>],
    [cuisine |-> "German", keywords |->
        <<<<"g", "e", "r", "m", "a", "n">>,
          <<"s", "c", "h", "n", "i", "t", "z", "e", "l">>>>]
  >>

\* the `types` tags a place can carry (italian_restaurant, gas_station,
\* greek_restaurant, Pizza_Place, SUSHI, thai_bbq, restaurant, philosophy_cafe)
TypeTags ==
    {<<"i", "t", "a", "l", "i", "a", "n", "_", "r", "e", "s", "t", "a", "u", "r", "a", "n", "t">>,
     <<"g", "a", "s", "_", "s", "t", "a", "t", "i", "o", "n">>,
     <<"g", "r", "e", "e", "k", "_", "r", "e", "s", "t", "a", "u", "r", "a", "n", "t">>,
     <<"P", "i", "z", "z", "a", "_", "P", "l", "a", "c", "e">>,
     <<"S", "U", "S", "H", "I">>,
     <<"t", "h", "a", "i", "_", "b", "b", "q">>,
     <<"r", "e", "s", "t", "a", "u", "r", "a", "n", "t">>,
     <<"p", "h", "i", "l", "o", "s", "o", "p", "h", "y", "_", "c", "a", "f", "e">>}

\* str.lower()
lower_char(c) ==
    CASE c = "A" -> "a"
      [] c = "B" -> "b"
      [] c = "C" -> "c"
      [] c = "D" -> "d"
      [] c = "E" -> "e"
      [] c = "F" -> "f"
      [] c = "G" -> "g"
      [] c = "H" -> "h"
      [] c = "I" -> "i"
      [] c = "J" -> "j"
      [] c = "K" -> "k"
      [] c = "L" -> "l"
      [] c = "M" -> "m"
      [] c = "N" -> "n"
      [] c = "O" -> "o"
      [] c = "P" -> "p"
      [] c = "Q" -> "q"
      [] c = "R" -> "r"
      [] c = "S" -> "s"
      [] c = "T" -> "t"
      [] c = "U" -> "u"
      [] c = "V" -> "v"
      [] c = "W" -> "w"
      [] c = "X" -> "x"
      [] c = "Y" -> "y"
      [] c = "Z" -> "z"
      [] OTHER -> c
lower(text) == [i \in 1..Len(text) |-> lower_char(text[i])]

\* `keyword in text`
Contains(keyword, text) ==
    \E i \in 1..(Len(text) - Len(keyword) + 1) :
        SubSeq(text, i, i + Len(keyword) - 1) = keyword

\* line 190: any(keyword in type.lower() for type in types for keyword in keywords)
AnyKeyword(keywords, types) ==
    \E t \in 1..Len(types) : \E k \in 1..Len(keywords) :
        Contains(keywords[k], lower(types[t]))

\* mutant: the last matching entry of the table wins
RECURSIVE filter_from_Last(_, _)
filter_from_Last(n, types) ==
    IF n < 1 THEN None
    ELSE IF AnyKeyword(CUISINE_KEYWORDS[n].keywords, types)
    THEN Some(CUISINE_KEYWORDS[n].cuisine)
    ELSE filter_from_Last(n - 1, types)

filter_cuisine_types_Last(types) == filter_from_Last(Len(CUISINE_KEYWORDS), types)

\* lines 189-192: the loop over the table from entry n on
RECURSIVE filter_from(_, _)
filter_from(n, types) ==
    IF n > Len(CUISINE_KEYWORDS) THEN None
    ELSE IF AnyKeyword(CUISINE_KEYWORDS[n].keywords, types)
    THEN Some(CUISINE_KEYWORDS[n].cuisine)
    ELSE filter_from(n + 1, types)

\* filter_cuisine_types, lines 187-192
filter_cuisine_types(types) == filter_from(1, types)

Fn_Classify ==
    \E types \in SeqsUpTo(TypeTags, MaxTags) :
        Fn_Apply("filter_cuisine_types", "near", types, filter_cuisine_types(types))

\* the `rating` a review can carry (None: the key is missing)
RatingValues == {None, Some(1), Some(3), Some(4), Some(5)}

\* the review lists of a place: each review has its author and maybe a rating
ReviewLists ==
    {[i \in 1..Len(rs) |-> [author_name |-> i, rating |-> rs[i]]] :
        rs \in SeqsUpTo(RatingValues, MaxReviews)}

\* mutant: a review without a rating ranks above every rated one
review_key_MissingFirst(x) == IF x.rating = None THEN 6 ELSE x.rating[1]

\* line 201: key=lambda x: x.get('rating', 0)
review_key(x) == IF x.rating = None THEN 0 ELSE x.rating[1]

\* one step of the stable descending sort: x goes behind every element whose
\* key is at least its own
RECURSIVE InsertDescending(_, _)
InsertDescending(sorted, x) ==
    IF sorted = <<>> THEN <<x>>
    ELSE IF review_key(Head(sorted)) >= review_key(x)
    THEN <<Head(sorted)>> \o InsertDescending(Tail(sorted), x)
    ELSE <<x>> \o sorted

\* line 201: sorted(reviews, key=..., reverse=True), which is stable
RECURSIVE sorted_reviews(_)
sorted_reviews(reviews) ==
    IF reviews = <<>> THEN <<>>
    ELSE InsertDescending(sorted_reviews(SubSeq(reviews, 1, Len(reviews) - 1)),
                          reviews[Len(reviews)])

\* mutant: the last review of the sorted list is returned
get_best_review_Tail(reviews) ==
    IF reviews = <<>> THEN None
    ELSE Some(sorted_reviews(reviews)[Len(reviews)])

\* get_best_review, lines 195-202
get_best_review(reviews) ==
    IF reviews = <<>> THEN None
    ELSE Some(sorted_reviews(reviews)[1])

Fn_BestReview ==
    \E reviews \in ReviewLists :
        Fn_Apply("get_best_review", "near", reviews, get_best_review(reviews))

Fn_Geocode ==
    \E loc \in Locations : \E r \in GeocodeResponses(loc) :
      \/ Fn_Apply("get_location_coordinates", "reco", r, Reco_get_location_coordinates(r))
      \/ Fn_Apply("get_location_coordinates", "chat", r, Chat_get_location_coordinates(r))

(* ------------- Restaurantnear.py: get_nearby_restaurants -------------- *)
\* the place summaries GET /nearbysearch can list: `types` and `price_level`
\* are optional keys
NearPlaces ==
    {[name |-> "Roma",
      types |-> Some(<<<<"i", "t", "a", "l", "i", "a", "n", "_", "r", "e", "s", "t", "a", "u", "r", "a", "n", "t">>,
                       <<"r", "e", "s", "t", "a", "u", "r", "a", "n", "t">>>>),
      price_level |-> Some(2)],
     [name |-> "Slice",
      types |-> Some(<<<<"r", "e", "s", "t", "a", "u", "r", "a", "n", "t">>,
                       <<"p", "i", "z", "z", "a", "_", "p", "l", "a", "c", "e">>>>),
      price_level |-> None],
     [name |-> "Athena",
      types |-> Some(<<<<"g", "r", "e", "e", "k", "_", "r", "e", "s", "t", "a", "u", "r", "a", "n", "t">>>>),
      price_level |-> Some(1)],
     [name |-> "Fuel",
      types |-> Some(<<<<"g", "a", "s", "_", "s", "t", "a", "t", "i", "o", "n">>>>),
      price_level |-> Some(2)],
     [name |-> "Kiosk", types |-> None, price_level |-> Some(0)]}

\* the answers of GET /nearbysearch to the one request of line 137
NearListResponses ==
    {[kind |-> "exc"]}
    \cup {[kind |-> "json", results |-> l] : l \in SeqsUpTo(NearPlaces, MaxPlaces)}

\* what main passes as filters (lines 254-260): None for "All"
CuisineFilters == {None, Some("Italian"), Some("Greek"), Some("Japanese")}
PriceFilters == {None, Some(1), Some(2)}

\* str(list) of a list of strings from position i on: 'a', 'b'
RECURSIVE repr_items(_, _)
repr_items(types, i) ==
    IF i > Len(types) THEN <<>>
    ELSE <<"'">> \o types[i] \o <<"'">>
         \o (IF i < Len(types) THEN <<",", " ">> ELSE <<>>)
         \o repr_items(types, i + 1)

\* line 146: str(rest.get('types', '')), the text of the whole tag list
str_types(rest) ==
    IF rest.types = None THEN <<>>
    ELSE <<"[">> \o repr_items(rest.types[1], 1) \o <<"]">>

\* line 147: CUISINE_KEYWORDS.get(cuisine_filter, [])
CUISINE_KEYWORDS_get(cuisine) ==
    LET hits == {n \in 1..Len(CUISINE_KEYWORDS) : CUISINE_KEYWORDS[n].cuisine = cuisine}
    IN  IF hits = {} THEN <<>> ELSE CUISINE_KEYWORDS[CHOOSE n \in hits : TRUE].keywords

\* lines 142-148
Near_cuisine_filter(filtered_restaurants, cuisine_filter) ==
    IF cuisine_filter = None THEN filtered_restaurants
    ELSE LET keywords == CUISINE_KEYWORDS_get(cuisine_filter[1])
             keep(rest) == \E k \in 1..Len(keywords) :
                               Contains(keywords[k], lower(str_types(rest)))
         IN  SelectSeq(filtered_restaurants, keep)

\* mutant: a place without a price level passes the price filter
Near_price_filter_KeepsUnpriced(filtered_restaurants, price_filter) ==
    IF price_filter = None \/ price_filter = Some(0) THEN filtered_restaurants
    ELSE LET keep(rest) == rest.price_level \in {None, price_filter}
         IN  SelectSeq(filtered_restaurants, keep)

\* lines 150-155; `if price_filter:` is false for None and for 0
Near_price_filter(filtered_restaurants, price_filter) ==
    IF price_filter = None \/ price_filter = Some(0) THEN filtered_restaurants
    ELSE LET keep(rest) == rest.price_level = price_filter
         IN  SelectSeq(filtered_restaurants, keep)

\* get_nearby_restaurants under @handle_api_errors, lines 107-162, for the two
\* answers it gets: None when anything raised (lines 78-86), else Some(list)
get_nearby_restaurants(geo, nearby, cuisine_filter, price_filter) ==
    IF geo.kind \in {"exc", "http"} \/ "status" \notin DOMAIN geo THEN None
    ELSE IF geo.status # "OK" THEN Some(<<>>)
    ELSE IF geo.results = <<>> \/ nearby.kind = "exc" THEN None
    ELSE Some(Near_price_filter(Near_cuisine_filter(nearby.results, cuisine_filter),
                                price_filter))

\* main, lines 250-268: one call per press of "Find Top Restaurants"
Fn_Nearby ==
    /\ applied = None
    /\ \E geo \in GeocodeResponses("L1") : \E nearby \in NearListResponses :
       \E c \in CuisineFilters : \E pf \in PriceFilters :
         Fn_Apply("get_nearby_restaurants", "near",
                  <<geo, nearby, c, pf>>,
                  get_nearby_restaurants(geo, nearby, c, pf))

(* ------------- Restaurantreco.py: AIRecommender.get_recommendation ---- *)
\* a JSON number: `twice` is two times its value, so that 0.5 and 1.5 can be
\* told from 0 and 1; a JSON string carries twice = 0
JsonInt(k) == [type |-> "int", twice |-> 2 * k]
JsonFloat(h) == [type |-> "float", twice |-> h]
\* Python int(x): truncation towards zero
int(x) == IF x.twice >= 0 THEN x.twice \div 2 ELSE 0 - ((0 - x.twice) \div 2)

\* the detail records the recommender ranks: rating and user_ratings_total are
\* optional keys
RatedPlaces ==
    {[rating |-> r, user_ratings_total |-> t] :
        r \in {None, Some(4), Some(5)}, t \in {None, Some(10), Some(20)}}

\* restaurants_data at step 5: a non-empty list (line 673)
RatedLists == SeqsUpTo(RatedPlaces, MaxPlaces) \ {<<>>}

\* the fields a "reasoning" object of the model can carry
ReasoningFields ==
    {"main_reason", "review_evidence", "preference_matching",
     "strength_points", "consideration_points"}

\* what self.model.generate_content can give for a list of n restaurants: it
\* raises, its text is not JSON, or its text is a JSON object whose two fields
\* may be missing or of any shape
ModelResponses(n) ==
    {[kind |-> "raises"], [kind |-> "text"]}
    \cup {[kind |-> "json", index |-> i, reasoning |-> g] :
            i \in {None, Some([type |-> "str", twice |-> 0])}
                  \cup {Some(JsonInt(k)) : k \in (0 - 1)..n}
                  \cup {Some(JsonFloat(h)) : h \in (0 - 1)..(2 * n)},
            g \in {None, Some(ReasoningFields),
                   Some(ReasoningFields \ {"main_reason"}),
                   Some(ReasoningFields \ {"strength_points"})}}

\* _validate_recommendation_structure, lines 469-483: TRUE when nothing is raised
validate_recommendation_structure(recommendation, max_index) ==
    /\ recommendation.index # None
    /\ recommendation.index[1].type \in {"int", "float"}
    /\ 0 <= int(recommendation.index[1]) /\ int(recommendation.index[1]) < max_index
    /\ recommendation.reasoning # None
    /\ {"main_reason", "review_evidence", "preference_matching"}
          \subseteq recommendation.reasoning[1]

\* _format_reasoning_for_display, lines 485-512: TRUE when no key is missing
format_reasoning_succeeds(reasoning) ==
    {"main_reason", "review_evidence", "strength_points", "consideration_points"}
        \subseteq reasoning

\* line 524: the key of max(): (rating, user_ratings_total), a missing one is 0
fallback_key(restaurant) ==
    <<IF restaurant.rating = None THEN 0 ELSE restaurant.rating[1],
      IF restaurant.user_ratings_total = None THEN 0 ELSE restaurant.user_ratings_total[1]>>

\* comparison of two key tuples as Python compares tuples
KeyGreater(a, b) == a[1] > b[1] \/ (a[1] = b[1] /\ a[2] > b[2])

\* mutant: among equal keys the last restaurant is taken
RECURSIVE max_enumerate_Last(_, _, _)
max_enumerate_Last(restaurants_data, i, best) ==
    IF i > Len(restaurants_data) THEN best
    ELSE max_enumerate_Last(restaurants_data, i + 1,
            IF ~KeyGreater(fallback_key(restaurants_data[best]),
                           fallback_key(restaurants_data[i]))
            THEN i ELSE best)

\* lines 522-525: max(enumerate(restaurants_data), key=...) keeps the first of
\* the largest; positions here count from 1
RECURSIVE max_enumerate(_, _, _)
max_enumerate(restaurants_data, i, best) ==
    IF i > Len(restaurants_data) THEN best
    ELSE max_enumerate(restaurants_data, i + 1,
            IF KeyGreater(fallback_key(restaurants_data[i]),
                          fallback_key(restaurants_data[best]))
            THEN i ELSE best)

\* _generate_fallback_recommendation, lines 514-533
generate_fallback_recommendation(restaurants_data) ==
    [selected_restaurant_index |-> JsonInt(max_enumerate(restaurants_data, 1, 1) - 1),
     fallback |-> TRUE]

\* the answer passes json.loads, the validation and the formatting
ResponseUsable(restaurants_data, response) ==
    /\ response.kind = "json"
    /\ validate_recommendation_structure(response, Len(restaurants_data))
    /\ format_reasoning_succeeds(response.reasoning[1])

\* get_recommendation, lines 396-420: the index of a usable answer is handed
\* on as it came (line 411), every failure goes to the fallback
get_recommendation(restaurants_data, response) ==
    IF ResponseUsable(restaurants_data, response)
    THEN [selected_restaurant_index |-> response.index[1], fallback |-> FALSE]
    ELSE generate_fallback_recommendation(restaurants_data)

\* main, lines 720-723: restaurants_data[recommendation['selected_restaurant_index']]
lookup_selected(restaurants_data, recommendation) ==
    LET idx == recommendation.selected_restaurant_index IN
    IF idx.type # "int" THEN "TypeError"
    ELSE IF int(idx) >= Len(restaurants_data) \/ int(idx) < 0 - Len(restaurants_data)
    THEN "IndexError"
    ELSE "ok"

\* main, lines 713-724: the recommendation step
Fn_Recommend ==
    /\ applied = None
    /\ \E restaurants_data \in RatedLists :
       \E response \in ModelResponses(Len(restaurants_data)) :
         LET recommendation == get_recommendation(restaurants_data, response) IN
         Fn_Apply("get_recommendation", "reco", <<restaurants_data, response>>,
                  [recommendation |-> recommendation,
                   lookup |-> lookup_selected(restaurants_data, recommendation)])

(* ------------- Restaurantnear.py: paging of the result list ----------- *)
\* line 239: st.slider("Restaurants per page", 5, 20, 10); the largest size
\* explored is MaxPageSize
min_results_per_page == 5
PageSizes == min_results_per_page..MaxPageSize

\* line 272
total_pages_of(total_restaurants, results_per_page) ==
    (total_restaurants + results_per_page - 1) \div results_per_page

\* line 273: st.number_input("Page", min_value, max_value, value) raises
\* StreamlitAPIException when its range is empty or its default lies outside
number_input_raises(min_value, max_value, value) ==
    min_value > max_value \/ value < min_value \/ value > max_value

\* lines 275-277: restaurants[start_idx:end_idx]
page_slice(found_restaurants, current_page, results_per_page) ==
    LET start_idx == (current_page - 1) * results_per_page
        end_idx == start_idx + results_per_page
    IN  SubSeq(found_restaurants, start_idx + 1,
               IF end_idx < Len(found_restaurants) THEN end_idx ELSE Len(found_restaurants))

\* main, lines 270-277 and 333-335: the list view for a result list and a page
\* the user picks
Fn_Paginate ==
    /\ applied = None
    /\ \E t \in 0..MaxListed : \E results_per_page \in PageSizes :
         LET found_restaurants == Run(0, t)
             total_pages == total_pages_of(Len(found_restaurants), results_per_page)
         IN  IF number_input_raises(1, total_pages, 1)
             THEN Fn_Apply("paginate", "near", <<found_restaurants, results_per_page, 1>>,
                           [total_pages |-> total_pages,
                            selector |-> "StreamlitAPIException",
                            page_restaurants |-> <<>>])
             ELSE \E current_page \in 1..total_pages :
                    Fn_Apply("paginate", "near",
                             <<found_restaurants, results_per_page, current_page>>,
                             [total_pages |-> total_pages,
                              selector |-> "ok",
                              page_restaurants |->
                                  page_slice(found_restaurants, current_page, results_per_page)])

(* ------------------------- the specification -------------------------- *)
\* the state every script starts in
Start ==
    /\ max_results = 0
    /\ session_state = (IF prog = "reco" THEN Reco_initialize_session_state(NoKeys)
                        ELSE IF prog = "chat" THEN Chat_initialize_session_state(NoKeys)
                        ELSE NoKeys)
    /\ msgs = {}
    /\ fpc = "idle"
    /\ all_results = <<>> /\ current_page_results = <<>>
    /\ data = None /\ todo = <<>> /\ pagetoken = 0 /\ page_count = 0
    /\ returned = None /\ requests = 0 /\ sleeps = 0 /\ served = 0
    /\ restaurants = <<>> /\ restaurants_found = 0 /\ calls = 0 /\ before_call = <<>>
    /\ cached_result = [s \in Sessions |-> [f \in CachedFunctions |-> None]]
    /\ now = 0
    /\ last_call = None
    /\ applied = None /\ outcome = None

Init == prog \in Programs /\ Start

Next ==
    \/ Reco_NoSuggestions
    \/ \E sel \in Locations : \E g \in GeocodeResponses(sel) : Reco_LocationNext(sel, g)
    \/ \E d \in DistanceChoices : Reco_DistanceNext(d)
    \/ \E t \in TypeChoices : Reco_Search(t)
    \/ Finder_CheckStatus
    \/ Finder_Place
    \/ Finder_EndPage
    \/ Finder_Sleep
    \/ Finder_NextPage
    \/ Finder_Return
    \/ \E q \in GeneratedQuestions : Reco_GenerateQuestions(q)
    \/ Reco_Restart
    \/ Reco_Answer
    \/ Reco_StartNewSearch
    \/ \E sel \in Locations : \E g \in GeocodeResponses(sel) : \E q \in QuestionLists :
         Chat_ConfirmLocation(sel, g, q)
    \/ Chat_Restart
    \/ Chat_NextQuestion
    \/ Chat_NoOptions
    \/ Chat_StartOver
    \/ \E m \in 0..MaxCap : Analyzer_Call(m)
    \/ Analyzer_Loop
    \/ Analyzer_Place
    \/ Analyzer_EndPage
    \/ Analyzer_Sleep
    \/ Analyzer_Return
    \/ Park_Search
    \/ \E s \in Sessions : \E fn \in CachedFunctions : \E arg \in NearArgs(fn) :
         Near_Call(s, fn, arg)
    \/ Near_Tick
    \/ \E s \in Sessions : Near_Rerun(s)

Spec == Init /\ [][Next]_vars

(* ============================== claims =============================== *)
\* a paginated fetch (RestaurantFinder or the analyzer) has been called
Fetcher == prog \in {"reco", "analyzer"}
\* the cap the running fetch works under
Cap == IF prog = "reco" THEN session_state.max_results ELSE max_results
\* the records the running fetch counts against the cap
Accumulated == IF prog = "reco" THEN Len(all_results) ELSE restaurants_found
\* the records this fetch itself has gathered from the pages it finished
ThisFetchRecords ==
    IF prog = "reco" THEN all_results
    ELSE SubSeq(restaurants, Len(before_call) + 1, Len(restaurants))

\* C1: whatever the cap and the pages, a fetch returns at most max_results records.
C1_ReturnsAtMostMaxResults ==
    (Fetcher /\ returned # None) => Len(returned[1]) <= Cap

\* C2: every restart button ("Restart", "Start New Search", "Start Over") leaves
\* the session at the first step with every field at its default.
C2_RestartResetsSession ==
    [][ /\ (Reco_Restart \/ Reco_StartNewSearch) => session_state' = Reco_default_state
        /\ (Chat_Restart \/ Chat_StartOver) => session_state' = Chat_default_state ]_vars

\* the results an uncached call of fn(arg) can give when the upstream answers
UpstreamResults(fn, arg) ==
    {Near_func(fn, arg, r).value : r \in {x \in NearResponses(fn, arg) : x.kind = "json"}}

\* C3: a call of a cached gateway function that returns a value returns what the
\* upstream holds for its own argument, whatever was asked before.
C3_CachedCallAnswersItsArgument ==
    (last_call # None /\ last_call[1].result # None)
        => last_call[1].result[1] \in UpstreamResults(last_call[1].fn, last_call[1].arg)

\* the last page carried a token and, the page being done, the cap is reached
CapReachedWithToken ==
    /\ Fetcher /\ fpc \in {"sleep", "nextpage", "return", "while"}
    /\ data # None /\ data[1].status = "OK" /\ data[1].token # 0
    /\ (prog = "reco" => fpc # "while")
    /\ Accumulated >= Cap

\* C4: once a page with a token leaves the accumulator at or above max_results,
\* the fetch issues no further request and executes no 2-second delay.
C4_CapShortCircuitsBeforeDelay ==
    [][CapReachedWithToken => (requests' = requests /\ sleeps' = sleeps)]_vars

\* C5: a rejected advance (geocoding fails at LocationInput, the search finds
\* nothing at CategorySelect) leaves the whole session unchanged and surfaces a
\* message.
C5_RejectedAdvanceLeavesSession ==
    [][ /\ ((\E sel \in Locations : \E g \in GeocodeResponses(sel) : Reco_LocationNext(sel, g))
              /\ session_state'.step = 1)
           => (session_state' = session_state /\ msgs' # {})
        /\ (prog = "reco" /\ session_state.step = 3 /\ session_state'.step = 3
              /\ fpc' = "idle" /\ returned' # None)
           => (session_state'.establishment_type = None /\ msgs' # {})
        /\ ((\E sel \in Locations : \E g \in GeocodeResponses(sel) : \E q \in QuestionLists :
               Chat_ConfirmLocation(sel, g, q))
              /\ session_state'.stage = "location")
           => (session_state' = session_state /\ msgs' # {}) ]_vars

StageOrd(stage) ==
    CASE stage = "location" -> 1 [] stage = "questions" -> 2 [] stage = "recommendations" -> 3

\* C6: apart from the restart buttons, every step of the wizard keeps the current
\* step or moves it to the one that follows; nothing else leaves step 5.
C6_StepOnlyAdvances ==
    [][ /\ prog = "reco" =>
             \/ Reco_Restart \/ Reco_StartNewSearch
             \/ session_state'.step = session_state.step
             \/ session_state.step < 5 /\ session_state'.step = session_state.step + 1
        /\ prog = "chat" =>
             \/ Chat_Restart \/ Chat_StartOver
             \/ StageOrd(session_state'.stage) = StageOrd(session_state.stage)
             \/ StageOrd(session_state'.stage) = StageOrd(session_state.stage) + 1 ]_vars

C6_Witness == prog = "reco" /\ session_state.step = 5

\* each of the first n questions has exactly one recorded answer, an option of it
AnsweredInOrder(answers, questions, n) ==
    /\ DOMAIN answers = 1..n
    /\ \A k \in 1..n : answers[k] \in RadioChoices(questions[k])

\* C7: answers are recorded one per question in question order, and the wizard is
\* at Recommendation only with an answer for every question of the sub-sequence
\* (the five of Restaurantreco, every parsed question of aichatbot).
C7_RecommendationAfterLastAnswer ==
    /\ prog = "reco" =>
         /\ session_state.step < 4 => session_state.answers = <<>>
         /\ session_state.step = 4 =>
              IF Truthy(session_state.questions)
              THEN AnsweredInOrder(session_state.answers, session_state.questions[1],
                                   session_state.current_question)
              ELSE session_state.answers = <<>>
         /\ session_state.step = 5 =>
              /\ session_state.current_question = 4
              /\ AnsweredInOrder(session_state.answers, session_state.questions[1], 5)
    /\ prog = "chat" =>
         /\ session_state.stage = "location" => session_state.answers = <<>>
         /\ session_state.stage = "questions" =>
              IF Truthy(session_state.parsed_questions)
              THEN /\ session_state.current_question < Len(session_state.parsed_questions[1])
                   /\ AnsweredInOrder(session_state.answers, session_state.parsed_questions[1],
                                      session_state.current_question)
              ELSE session_state.answers = <<>>
         /\ session_state.stage = "recommendations" =>
              AnsweredInOrder(session_state.answers, session_state.parsed_questions[1],
                              Len(session_state.parsed_questions[1]))

C7_Witness ==
    /\ prog = "chat" /\ session_state.stage = "recommendations"
    /\ Len(session_state.parsed_questions[1]) >= 2

\* a page came back with a status other than "OK" and "ZERO_RESULTS"
ErrorPage ==
    /\ Fetcher /\ fpc # "idle" /\ data # None
    /\ data[1].status \notin {"OK", "ZERO_RESULTS"}

\* C8 as stated: after an error page no request follows and the fetch returns
\* exactly the records of the pages this fetch finished before it.
C8_ErrorReturnsEarlierPages ==
    [][ErrorPage => /\ requests' = requests
                    /\ returned' # None => returned' = Some(ThisFetchRecords)]_vars

\* C8 amended: after an error page no request follows and the fetch returns the
\* records of its earlier pages, preceded on the analyzer by the records that
\* earlier calls on the same analyzer had appended.
C8_ErrorReturnsAccumulated ==
    [][ErrorPage => /\ requests' = requests
                    /\ returned' # None =>
                         returned' = Some((IF prog = "analyzer" THEN before_call ELSE <<>>)
                                          \o ThisFetchRecords)]_vars

C8_Witness ==
    /\ Fetcher /\ returned # None /\ returned[1] # <<>> /\ requests >= 2
    /\ data # None /\ data[1].status \notin {"OK", "ZERO_RESULTS"}

\* the messages that report a nearby-search status as an error
StatusErrorMsgs ==
    {"Places API Error", "Error fetching restaurants", "Error finding national parks"}

\* C9: no nearby-search caller reports "ZERO_RESULTS" as an error, and every
\* caller reports any other non-"OK" status once it has looked at it.
C9_ZeroResultsIsNotAnError ==
    (prog \in {"reco", "analyzer", "park"} /\ data # None) =>
        /\ data[1].status = "ZERO_RESULTS" => msgs \cap StatusErrorMsgs = {}
        /\ (data[1].status \in ErrorStatuses /\ fpc \in {"return", "idle"})
             => msgs \cap StatusErrorMsgs # {}

\* C10: when the first response is "OK" and carries no token, no second
\* nearby-search request is ever issued by that fetch.
C10_SinglePageSingleRequest ==
    [][ (Fetcher /\ fpc # "idle" /\ requests = 1 /\ data # None
           /\ data[1].status = "OK" /\ data[1].token = 0)
        => requests' = 1 ]_vars

C10_Witness ==
    /\ prog = "reco" /\ returned # None /\ requests = 1
    /\ data # None /\ data[1].status = "OK" /\ data[1].token = 0
    /\ Len(data[1].results) > session_state.max_results

\* a step of the running fetch that issues a nearby-search request after the first
LaterPageRequest == Fetcher /\ requests >= 1 /\ requests' = requests + 1

\* C11: every request after the first carries the token of the response just
\* before it (the upstream issues token k with its k-th response, so a token is
\* never used twice), is issued once that response's places are all processed,
\* and follows one 2-second delay per request.
C11_PagesSequentialAndDelayed ==
    [][LaterPageRequest =>
         /\ data # None /\ data[1].token # 0
         /\ pagetoken' = data[1].token /\ pagetoken' = requests
         /\ todo = <<>>
         /\ sleeps = requests /\ sleeps' = sleeps]_vars

C11_Witness ==
    /\ prog = "analyzer" /\ requests = 2 /\ sleeps = 1 /\ pagetoken = 1
    /\ restaurants_found >= 1

\* what the script prints when an exception reaches the top of the run
Uncaught == {"Traceback: RequestException", "Traceback: AttributeError"}

\* C12: no failure of a gateway operation (transport failure, non-OK status,
\* failed detail lookup) escapes as an exception, in the operation or in the
\* caller that uses its result.
C12_NoFailureEscapes == msgs \cap Uncaught = {}

\* what the script prints when a lookup in a response body fails uncaught
MalformedEscapes == {"Traceback: KeyError", "Traceback: IndexError"}

\* C13: a response that lacks an expected field (no status, an "OK" geocode
\* answer with no result) is an empty result for the call and raises nothing.
C13_MalformedResponseIsEmpty == msgs \cap MalformedEscapes = {}

(* ---------------- the functions applied on their own ------------------ *)
FnInit == prog = "functions" /\ Start

FnNext ==
    \/ Fn_Suggest
    \/ Fn_Geocode
    \/ Fn_Classify
    \/ Fn_BestReview

FnSpec == FnInit /\ [][FnNext]_vars

\* the function applied last is f, and the upstream answered with a body
AppliedToBody(f) ==
    /\ applied # None /\ applied[1].fn = f /\ applied[1].input.kind = "json"

\* C14: whenever the status is not "OK", get_place_suggestions returns the empty
\* sequence and reports that status; with "OK" it returns one suggestion per
\* prediction in upstream order.
C14_SuggestFailsSoftAndReports ==
    AppliedToBody("get_place_suggestions") =>
        LET r == applied[1].input
            out == outcome[1]
        IN  IF r.status # "OK"
            THEN out.value = <<>> /\ \E m \in out.msgs : m[2] = r.status
            ELSE /\ Len(out.value) = Len(r.predictions)
                 /\ \A i \in 1..Len(r.predictions) :
                      IF applied[1].script = "park"
                      THEN out.value[i].description = r.predictions[i].description
                      ELSE out.value[i] = r.predictions[i].description

\* the geocode body answered with a status, and with a first entry when "OK"
GeocodeAnswered ==
    /\ AppliedToBody("get_location_coordinates")
    /\ "status" \in DOMAIN applied[1].input
    /\ applied[1].input.status = "OK" => applied[1].input.results # <<>>

\* latitude, longitude and formatted address of an entry of the result list
Place3(e) == [lat |-> e.lat, lng |-> e.lng, formatted_address |-> e.formatted_address]

\* C15 as stated: get_location_coordinates returns None unless the status is
\* "OK", and otherwise latitude, longitude and formatted address of the first
\* entry of the result list.
C15_GeocodeFirstEntry ==
    GeocodeAnswered =>
        LET r == applied[1].input
            out == outcome[1]
        IN  IF r.status # "OK" THEN out.value = None
            ELSE /\ out.value # None
                 /\ DOMAIN out.value[1] = {"lat", "lng", "formatted_address"}
                 /\ out.value[1] = Place3(r.results[1])

\* C15 amended: None unless the status is "OK"; otherwise, from the first entry
\* alone, Restaurantreco returns latitude, longitude and formatted address and
\* aichatbot returns the text "lat,lng" without the address.
C15_GeocodeFirstEntryPerScript ==
    GeocodeAnswered =>
        LET r == applied[1].input
            out == outcome[1]
        IN  IF r.status # "OK" THEN out.value = None
            ELSE IF applied[1].script = "reco"
            THEN out.value = Some(Place3(r.results[1]))
            ELSE out.value = Some([text |-> <<r.results[1].lat, ",", r.results[1].lng>>])

C15_Witness ==
    /\ GeocodeAnswered /\ applied[1].script = "chat"
    /\ applied[1].input.status = "OK" /\ Len(applied[1].input.results) = 2
    /\ outcome[1].value # None

\* C16: with two sessions interleaved in one process, a value a session gets
\* from a cached gateway function is the upstream's answer to its own call or
\* the stored answer of an earlier call of the same session, never one that a
\* call of the other session produced.
C16_NoStateCrossesSessions ==
    (prog = "sessions" /\ last_call # None /\ last_call[1].result # None) =>
        IF last_call[1].hit
        THEN last_call[1].by = last_call[1].session
        ELSE last_call[1].result[1] \in UpstreamResults(last_call[1].fn, last_call[1].arg)

C16_Witness ==
    /\ prog = "sessions" /\ last_call # None
    /\ last_call[1].session = 2 /\ last_call[1].hit /\ last_call[1].fn = "get_place_details"
    /\ cached_result[1]["get_place_details"] # None
    /\ cached_result[1]["get_place_details"][1].result # last_call[1].result[1]

\* some keyword of table entry n occurs in some tag, letter case ignored
LabelMatches(n, types) ==
    \E t \in 1..Len(types) : \E k \in 1..Len(CUISINE_KEYWORDS[n].keywords) :
        Contains(lower(CUISINE_KEYWORDS[n].keywords[k]), lower(types[t]))

\* the label returned is that of the first table entry that matches, none when
\* no entry matches; "italian_restaurant" gives "Italian", "gas_station" none
FirstMatchingLabel ==
    (applied # None /\ applied[1].fn = "filter_cuisine_types") =>
        LET types == applied[1].input
            label == outcome[1]
            hits == {n \in 1..Len(CUISINE_KEYWORDS) : LabelMatches(n, types)}
        IN  /\ hits = {} <=> label = None
            /\ \A n \in hits : (\A m \in hits : n <= m) => label = Some(CUISINE_KEYWORDS[n].cuisine)
            /\ types = <<<<"i", "t", "a", "l", "i", "a", "n", "_", "r", "e", "s", "t", "a", "u",
                           "r", "a", "n", "t">>>> => label = Some("Italian")
            /\ types = <<<<"g", "a", "s", "_", "s", "t", "a", "t", "i", "o", "n">>>>
                 => label = None

\* C17: filter_cuisine_types returns the label of the first table entry, in
\* declaration order, one of whose keywords occurs in one of the tags (case
\* ignored), and no label when no entry matches; applying it again to the same
\* tags gives the same label.
C17_FirstMatchingLabelWins ==
    /\ []FirstMatchingLabel
    /\ [][(applied # None /\ applied' # None /\ applied[1].fn = "filter_cuisine_types"
            /\ applied'[1] = applied[1]) => outcome' = outcome]_vars

\* the tags hit two table entries and the earlier one was returned
C17_Witness ==
    /\ applied # None /\ applied[1].fn = "filter_cuisine_types"
    /\ Cardinality({n \in 1..Len(CUISINE_KEYWORDS) : LabelMatches(n, applied[1].input)}) >= 2
    /\ outcome[1] = Some("Mediterranean")

\* get_best_review was applied to a review list
ReviewsApplied == applied # None /\ applied[1].fn = "get_best_review"

\* the rating a review counts with: a missing rating counts as 0
RatingOf(x) == IF x.rating = None THEN 0 ELSE x.rating[1]

\* the first review, in original order, whose rating no review exceeds
FirstHighest(reviews) ==
    CHOOSE i \in 1..Len(reviews) :
        /\ \A j \in 1..Len(reviews) : RatingOf(reviews[j]) <= RatingOf(reviews[i])
        /\ \A j \in 1..(i - 1) : RatingOf(reviews[j]) < RatingOf(reviews[i])

\* C18: get_best_review returns nothing for an empty list and otherwise the
\* review with the highest rating (missing counts as 0), the first in original
\* order among those tied on it.
C18_HighestRatedFirstInOrder ==
    ReviewsApplied =>
        LET reviews == applied[1].input IN
        IF reviews = <<>> THEN outcome[1] = None
        ELSE outcome[1] = Some(reviews[FirstHighest(reviews)])

C18_Witness ==
    /\ ReviewsApplied /\ Len(applied[1].input) = 3
    /\ applied[1].input[1].rating = Some(3)
    /\ applied[1].input[2].rating = Some(5) /\ applied[1].input[3].rating = Some(5)
    /\ outcome[1] = Some(applied[1].input[2])

\* some review of the list has n stars
HasStars(reviews, n) == \E i \in 1..Len(reviews) : reviews[i].rating = Some(n)

\* C19 as stated: a 5-star review if one exists, otherwise a 4-star review if
\* one exists, otherwise the first review in original order; nothing for [].
C19_RatingPriority ==
    ReviewsApplied =>
        LET reviews == applied[1].input IN
        IF reviews = <<>> THEN outcome[1] = None
        ELSE /\ outcome[1] # None
             /\ IF HasStars(reviews, 5) THEN outcome[1][1].rating = Some(5)
                ELSE IF HasStars(reviews, 4) THEN outcome[1][1].rating = Some(4)
                ELSE outcome[1][1] = reviews[1]

\* C19 amended: a 5-star review if one exists, otherwise a 4-star review if one
\* exists, otherwise a review no other review of the list is rated above (a
\* missing rating counting as 0); nothing for [].
C19_RatingPriorityThenHighest ==
    ReviewsApplied =>
        LET reviews == applied[1].input IN
        IF reviews = <<>> THEN outcome[1] = None
        ELSE /\ outcome[1] # None
             /\ \E i \in 1..Len(reviews) : outcome[1][1] = reviews[i]
             /\ IF HasStars(reviews, 5) THEN outcome[1][1].rating = Some(5)
                ELSE IF HasStars(reviews, 4) THEN outcome[1][1].rating = Some(4)
                ELSE \A j \in 1..Len(reviews) : RatingOf(reviews[j]) <= RatingOf(outcome[1][1])

\* no 4 or 5 stars, and the review returned is not the first of the list
C19_Witness ==
    /\ ReviewsApplied /\ Len(applied[1].input) >= 2
    /\ ~HasStars(applied[1].input, 5) /\ ~HasStars(applied[1].input, 4)
    /\ outcome[1] # None /\ outcome[1][1] # applied[1].input[1]

\* C20: the wizard is past DistanceSelect (step 3 or later) only with distance
\* set to one of the offered radii; there is no advance from step 2 without one.
C20_StepThreeHasOfferedRadius ==
    (prog = "reco" /\ session_state.step >= 3) =>
        /\ session_state.distance # None
        /\ session_state.distance[1] \in distance_options

C20_Witness ==
    /\ prog = "reco" /\ session_state.step = 3
    /\ session_state.distance = Some(20000) /\ session_state.establishment_type = None

\* C21: once the wizard has left LocationInput, only the restart buttons change
\* the stored location or its coordinates.
C21_LocationImmutable ==
    [][ /\ (prog = "reco" /\ session_state.step >= 2
             /\ ~(Reco_Restart \/ Reco_StartNewSearch))
           => /\ session_state'.location = session_state.location
              /\ session_state'.location_data = session_state.location_data
        /\ (prog = "chat" /\ session_state.stage # "location"
             /\ ~(Chat_Restart \/ Chat_StartOver))
           => /\ session_state'.location = session_state.location
              /\ session_state'.location_coords = session_state.location_coords ]_vars

C21_Witness ==
    /\ prog = "reco" /\ session_state.step = 5
    /\ session_state.location = Some("L2") /\ session_state.location_data # None

\* the records a finished fetch gathered are in upstream order, none twice
\* (the upstream numbers its places in the order it serves them)
InUpstreamOrder ==
    (Fetcher /\ returned # None) =>
        \A i, j \in 1..Len(ThisFetchRecords) :
            i < j => ThisFetchRecords[i].name < ThisFetchRecords[j].name

\* the fetch is about to look up the next place of its page
LooksUpNextPlace ==
    /\ Fetcher /\ fpc = "places" /\ todo # <<>>
    /\ prog = "analyzer" => restaurants_found < max_results

\* C22: each place of a page gets one detail lookup; the list returned holds
\* the records found in page order and upstream order without repetition; and a
\* lookup that fails or is empty is skipped, the fetch going on with the next
\* place.
C22_OneLookupPerPlaceInOrder ==
    /\ []InUpstreamOrder
    /\ [][LooksUpNextPlace =>
            /\ fpc' = "places" /\ todo' = Tail(todo)
            /\ Len(ThisFetchRecords') <= Len(ThisFetchRecords) + 1
            /\ current_page_results' \in
                  {current_page_results,
                   Append(current_page_results, PlaceRecord(Head(todo)))}]_vars

(* ------------------- the fetch under fair scheduling ------------------ *)
\* One step of a running fetch. Both fetch loops are straight-line Python run
\* by one thread: once called, each statement is reached and every request
\* and every time.sleep(2) returns.
FetchStep ==
    \/ Finder_CheckStatus \/ Finder_Place \/ Finder_EndPage
    \/ Finder_Sleep \/ Finder_NextPage \/ Finder_Return
    \/ Analyzer_Loop \/ Analyzer_Place \/ Analyzer_EndPage
    \/ Analyzer_Sleep \/ Analyzer_Return

LiveInit == prog \in {"reco", "analyzer"} /\ Start

LiveNext ==
    \/ Reco_NoSuggestions
    \/ \E sel \in Locations : \E g \in GeocodeResponses(sel) : Reco_LocationNext(sel, g)
    \/ \E d \in DistanceChoices : Reco_DistanceNext(d)
    \/ \E t \in TypeChoices : Reco_Search(t)
    \/ \E q \in GeneratedQuestions : Reco_GenerateQuestions(q)
    \/ Reco_Restart
    \/ Reco_Answer
    \/ Reco_StartNewSearch
    \/ \E m \in 0..MaxCap : Analyzer_Call(m)
    \/ FetchStep

LiveSpec == LiveInit /\ [][LiveNext]_vars /\ WF_vars(FetchStep)

\* C23: a fetch that has been called returns: the upstream serves finitely many
\* pages, and the loop also leaves at the cap and at an error status.
C23_FetchTerminates ==
    (Fetcher /\ fpc # "idle") ~> (fpc = "idle" /\ returned # None)

\* a fetch that went through a second page and the wait before it has returned
C23_Witness ==
    /\ Fetcher /\ fpc = "idle" /\ returned # None
    /\ requests = 2 /\ sleeps = 1

(* ------------- the list functions, each applied to one input ---------- *)
\* get_nearby_restaurants, get_recommendation and the page slicing of the list
\* view are applied once to each input drawn from the bounded sets
SelectionNext ==
    \/ Fn_Nearby
    \/ Fn_Recommend
    \/ Fn_Paginate

SelectionSpec == FnInit /\ [][SelectionNext]_vars

\* the filters were applied to a list the upstream did return
NearbyFiltered ==
    /\ applied # None /\ applied[1].fn = "get_nearby_restaurants"
    /\ applied[1].input[1].kind = "json" /\ "status" \in DOMAIN applied[1].input[1]
    /\ applied[1].input[1].status = "OK" /\ applied[1].input[1].results # <<>>
    /\ applied[1].input[2].kind = "json"

\* a place passes the two filters: its price level is the one asked for, and
\* one of its type tags holds a keyword of the cuisine asked for
PassesFilters(rest, c, pf) ==
    /\ pf # None => rest.price_level = pf
    /\ c # None => /\ rest.types # None
                   /\ AnyKeyword(CUISINE_KEYWORDS_get(c[1]), rest.types[1])

\* the places of list l that pass, in the order of l
RECURSIVE Passing(_, _, _)
Passing(l, c, pf) ==
    IF l = <<>> THEN <<>>
    ELSE (IF PassesFilters(Head(l), c, pf) THEN <<Head(l)>> ELSE <<>>)
         \o Passing(Tail(l), c, pf)

\* C24: get_nearby_restaurants returns, in upstream order, exactly the places
\* that pass the price filter and the cuisine filter; the whole upstream list
\* when no filter is given.
C24_FiltersConjoinInOrder ==
    NearbyFiltered =>
        LET upstream == applied[1].input[2].results
            cuisine_filter == applied[1].input[3]
            price_filter == applied[1].input[4]
        IN  /\ outcome = Some(Some(Passing(upstream, cuisine_filter, price_filter)))
            /\ (cuisine_filter = None /\ price_filter = None)
                  => outcome = Some(Some(upstream))

\* both filters given, one place kept and one dropped for want of a price level
C24_Witness ==
    /\ NearbyFiltered
    /\ applied[1].input[3] = Some("Italian")
    /\ applied[1].input[4] = Some(2)
    /\ Len(applied[1].input[2].results) = 2
    /\ applied[1].input[2].results[2].price_level = None
    /\ applied[1].input[2].results[2].name = "Slice"
    /\ Len(outcome[1][1]) = 1

\* C25: every wizard step of Restaurantreco has the data it reads: location and
\* coordinates from step 2 on, the radius from step 3 on, a non-empty restaurant
\* list from step 4 on, and the answers Q1..Q5 at step 5.
C25_StepDataPresent ==
    prog = "reco" =>
        /\ session_state.step >= 2 =>
              session_state.location # None /\ session_state.location_data # None
        /\ session_state.step >= 3 => session_state.distance # None
        /\ session_state.step >= 4 =>
              session_state.restaurants_data # None
                 /\ session_state.restaurants_data[1] # <<>>
        /\ session_state.step = 5 => DOMAIN session_state.answers = 1..5

\* the recommendation step, reached with a question that had no options
C25_Witness ==
    /\ prog = "reco" /\ session_state.step = 5
    /\ DOMAIN session_state.answers = 1..5
    /\ session_state.answers[5] = None
    /\ Len(session_state.restaurants_data[1]) >= 1

\* the wizard is in its question step with a stored question list to display
DisplaysQuestion ==
    \/ prog = "reco" /\ session_state.step = 4 /\ Truthy(session_state.questions)
    \/ prog = "chat" /\ session_state.stage = "questions"
          /\ Truthy(session_state.parsed_questions)

\* the question list the wizard displays from
DisplayedList ==
    IF prog = "reco" THEN session_state.questions[1] ELSE session_state.parsed_questions[1]

\* C26: whenever a wizard displays a question, current_question is an index of
\* the stored question list, whatever list the generator returned.
C26_QuestionIndexValid ==
    DisplaysQuestion =>
        /\ 0 <= session_state.current_question
        /\ session_state.current_question < Len(DisplayedList)
        /\ "Traceback: IndexError" \notin msgs

\* get_recommendation was applied to a restaurant list and a model response
Recommended == applied # None /\ applied[1].fn = "get_recommendation"

\* C27: for a non-empty list of n restaurants and any response of the model,
\* the selected index is an integer in 0..n-1 and the lookup of the selected
\* restaurant succeeds.
C27_SelectedIndexInRange ==
    Recommended =>
        LET idx == outcome[1].recommendation.selected_restaurant_index IN
        /\ idx.type = "int"
        /\ 0 <= int(idx) /\ int(idx) < Len(applied[1].input[1])
        /\ outcome[1].lookup = "ok"

\* position i of the list is the one the fallback has to name: no restaurant
\* has a higher rating, none of equal rating has more ratings, and none equal
\* in both stands earlier; a missing value counts as 0
FallbackChoice(l, i) ==
    LET rating(k) == IF l[k].rating = None THEN 0 ELSE l[k].rating[1]
        total(k) == IF l[k].user_ratings_total = None THEN 0
                    ELSE l[k].user_ratings_total[1]
    IN  \A j \in 1..Len(l) :
          /\ rating(j) <= rating(i)
          /\ rating(j) = rating(i) => total(j) <= total(i)
          /\ (rating(j) = rating(i) /\ total(j) = total(i)) => i <= j

\* the answer of the model cannot be used: the call raised, the text is not
\* JSON, or the object fails the structural validation
Unusable ==
    LET response == applied[1].input[2] IN
    \/ response.kind \in {"raises", "text"}
    \/ ~validate_recommendation_structure(response, Len(applied[1].input[1]))

\* C28: an unusable answer makes get_recommendation return the restaurant with
\* the highest rating, then the larger user_ratings_total, then the earliest
\* position.
C28_FallbackHighestRated ==
    (Recommended /\ Unusable) =>
        LET idx == outcome[1].recommendation.selected_restaurant_index IN
        /\ outcome[1].recommendation.fallback
        /\ idx.type = "int"
        /\ int(idx) + 1 \in 1..Len(applied[1].input[1])
        /\ FallbackChoice(applied[1].input[1], int(idx) + 1)

\* the fallback chose between two restaurants equal in rating and count, the
\* rating of both missing
C28_Witness ==
    /\ Recommended /\ Unusable
    /\ applied[1].input[2].kind = "text"
    /\ Len(applied[1].input[1]) = 2
    /\ applied[1].input[1][1] = applied[1].input[1][2]
    /\ applied[1].input[1][1].rating = None
    /\ outcome[1].recommendation.selected_restaurant_index = JsonInt(0)

\* what every state of the analyzer shows of its calls so far: the running
\* call has added at most max_results records behind those of earlier calls,
\* and a finished call returned the whole list
AccumulatesWithinCap ==
    prog = "analyzer" =>
        /\ Len(restaurants) <= Len(before_call) + max_results
        /\ SubSeq(restaurants, 1, Len(before_call)) = before_call
        /\ returned # None => returned[1] = restaurants

\* C29: over any sequence of calls on one analyzer, a call appends at most
\* max_results records, only records of places whose detail lookup answered
\* "OK", never removes or reorders the records of earlier calls, and returns
\* the whole accumulated list.
C29_AppendOnlyWithinCap ==
    /\ []AccumulatesWithinCap
    /\ [][(prog = "analyzer" /\ restaurants' # restaurants) =>
            /\ fpc = "places" /\ todo # <<>>
            /\ restaurants' =
                  Append(restaurants, Analyzer_Record(PlaceRecord(Head(todo))))]_vars

\* a second call has added a record behind the record of the first and
\* returned both
C29_Witness ==
    /\ prog = "analyzer" /\ calls = 2 /\ returned # None
    /\ Len(before_call) = 1 /\ Len(returned[1]) = 2

\* the list view was computed for a result list, a page size and a page
Paginated == applied # None /\ applied[1].fn = "paginate"

\* the slices of pages p..n of list l, one after the other
RECURSIVE SlicesFrom(_, _, _, _)
SlicesFrom(l, s, p, n) ==
    IF p > n THEN <<>> ELSE page_slice(l, p, s) \o SlicesFrom(l, s, p + 1, n)

\* C30: the pages partition the result list: total_pages is the ceiling of
\* t / s, every page holds between 1 and s items, the pages in order make up the
\* list, and the page selector has a valid range, also for an empty list.
C30_PagesPartitionList ==
    Paginated =>
        LET l == applied[1].input[1]
            s == applied[1].input[2]
            n == outcome[1].total_pages
        IN  /\ n * s >= Len(l) /\ (n - 1) * s < Len(l)
            /\ \A p \in 1..n : /\ page_slice(l, p, s) # <<>>
                               /\ Len(page_slice(l, p, s)) <= s
            /\ SlicesFrom(l, s, 1, n) = l
            /\ outcome[1].selector = "ok" => outcome[1].page_restaurants
                                               = page_slice(l, applied[1].input[3], s)
            /\ 1 <= n
            /\ outcome[1].selector = "ok"

====
